---- MODULE Spec2Model ----
(***************************************************************************)
(* Model of the connection core of sqlx-mysql:                             *)
(*   - sqlx-mysql/src/options/parse.rs : MySqlConnectOptions::from_str     *)
(*   - sqlx-mysql/src/connection.rs    : MySqlConnection and the           *)
(*     Connection / Connect / Close exposures (async and blocking)         *)
(*                                                                         *)
(* Text is modelled as a sequence of one-character strings, so that        *)
(* splitting, percent-encoding and percent-decoding are computed and not   *)
(* assumed.  Option<T> is modelled as a sequence of length 0 or 1.         *)
(***************************************************************************)
EXTENDS Integers, Sequences, FiniteSets, TLC

VARIABLES
    input,      \* the components the URL text was assembled from (ghost)
    url,        \* the URL text handed to from_str / connect
    result,     \* what from_str returned (ParseSpec)
    conn,       \* per caller: the MySqlConnection, the call position, the outcome
    tape,       \* the transport's behaviour so far (shared by the callers)
    budget      \* how many auth rounds / pings the environment may still add

vars == <<input, url, result, conn, tape, budget>>

-----------------------------------------------------------------------------
(* Bounds of the model *)

MaxUserInfoLen == 3
MaxPairs == 2
MaxAuthRounds == 128
MaxPings == 2

-----------------------------------------------------------------------------
(* Characters *)

LowerSeq ==
    <<"a","b","c","d","e","f","g","h","i","j","k","l","m",
      "n","o","p","q","r","s","t","u","v","w","x","y","z">>
UpperSeq ==
    <<"A","B","C","D","E","F","G","H","I","J","K","L","M",
      "N","O","P","Q","R","S","T","U","V","W","X","Y","Z">>
DigitSeq == <<"0","1","2","3","4","5","6","7","8","9">>
PunctSeq == <<" ", "#", "%", "&", "+", "-", ".", "/", ":", "=", "?", "@", "_">>
PunctCode == <<32, 35, 37, 38, 43, 45, 46, 47, 58, 61, 63, 64, 95>>

Range(s) == {s[i] : i \in 1..Len(s)}
IndexIn(s, c) == CHOOSE i \in 1..Len(s) : s[i] = c

IsLower(c) == c \in Range(LowerSeq)
IsUpper(c) == c \in Range(UpperSeq)
IsDigit(c) == c \in Range(DigitSeq)
IsAlpha(c) == IsLower(c) \/ IsUpper(c)
DigitVal(c) == IndexIn(DigitSeq, c) - 1

\* char::to_ascii_lowercase
Lower(c) == IF IsUpper(c) THEN LowerSeq[IndexIn(UpperSeq, c)] ELSE c

\* the byte of an ASCII character
Code(c) ==
    IF IsLower(c) THEN 96 + IndexIn(LowerSeq, c)
    ELSE IF IsUpper(c) THEN 64 + IndexIn(UpperSeq, c)
    ELSE IF IsDigit(c) THEN 48 + DigitVal(c)
    ELSE PunctCode[IndexIn(PunctSeq, c)]

AsciiChars == Range(LowerSeq) \cup Range(UpperSeq) \cup Range(DigitSeq) \cup Range(PunctSeq)

\* U+FFFD, what a lossy UTF-8 decode puts in place of an invalid byte
REPLACEMENT == "U+FFFD"

\* the character of a decoded byte (decode_utf8_lossy on one byte); bytes
\* below 128 outside the model's alphabet are shown as "U+00xx"
Chr(b) ==
    IF b >= 128 THEN REPLACEMENT
    ELSE IF \E c \in AsciiChars : Code(c) = b
         THEN CHOOSE c \in AsciiChars : Code(c) = b
         ELSE "U+00xx"

IsHex(c) == IsDigit(c) \/ c \in {"a","b","c","d","e","f","A","B","C","D","E","F"}
HexVal(c) ==
    IF IsDigit(c) THEN DigitVal(c) ELSE 9 + IndexIn(LowerSeq, Lower(c))
HexSeq == <<"0","1","2","3","4","5","6","7","8","9","A","B","C","D","E","F">>

-----------------------------------------------------------------------------
(* Text helpers *)

Min(S) == CHOOSE x \in S : \A y \in S : x <= y
Max(S) == CHOOSE x \in S : \A y \in S : y <= x

\* str::find / str::rfind as 1-based indices, 0 when there is none
FirstIndex(s, C) ==
    LET I == {i \in 1..Len(s) : s[i] \in C} IN IF I = {} THEN 0 ELSE Min(I)
LastIndex(s, C) ==
    LET I == {i \in 1..Len(s) : s[i] \in C} IN IF I = {} THEN 0 ELSE Max(I)

Take(s, n) == SubSeq(s, 1, n)
Drop(s, n) == SubSeq(s, n + 1, Len(s))
StartsWith(s, p) == Len(s) >= Len(p) /\ Take(s, Len(p)) = p

RECURSIVE Split(_, _)
Split(s, c) ==
    LET i == FirstIndex(s, {c})
    IN IF i = 0 THEN <<s>> ELSE <<Take(s, i - 1)>> \o Split(Drop(s, i), c)

None == <<>>
Some(x) == <<x>>
IsSome(o) == o # <<>>
Unwrap(o) == o[1]

-----------------------------------------------------------------------------
(* percent_encoding *)

\* percent_decode_str(value).decode_utf8_lossy(): "%" followed by two hex
\* digits is one byte, anything else stands for itself
RECURSIVE PercentDecode(_)
PercentDecode(s) ==
    IF s = <<>> THEN <<>>
    ELSE IF s[1] = "%" /\ Len(s) >= 3 /\ IsHex(s[2]) /\ IsHex(s[3])
         THEN <<Chr(16 * HexVal(s[2]) + HexVal(s[3]))>> \o PercentDecode(Drop(s, 3))
         ELSE <<s[1]>> \o PercentDecode(Tail(s))

\* the mutant of percent_decode_str_utf8 that decodes nothing
percent_decode_identity(value) == value

\* parse.rs: fn percent_decode_str_utf8
percent_decode_str_utf8(value) == PercentDecode(value)

\* the url crate's USERINFO encode set, restricted to the model's alphabet
USERINFO == {" ", "#", "?", "/", ":", "=", "@"}

PercentEncodeChar(c, set) ==
    IF c \in set
    THEN <<"%", HexSeq[(Code(c) \div 16) + 1], HexSeq[(Code(c) % 16) + 1]>>
    ELSE <<c>>

RECURSIVE PercentEncode(_, _)
PercentEncode(s, set) ==
    IF s = <<>> THEN <<>>
    ELSE PercentEncodeChar(s[1], set) \o PercentEncode(Tail(s), set)

-----------------------------------------------------------------------------
(* The url crate, as from_str uses it: Url::parse for a non-special scheme, *)
(* username, password, host_str, port, path and query_pairs.                *)

SchemeChars == Range(LowerSeq) \cup Range(UpperSeq) \cup Range(DigitSeq) \cup {"+", "-", "."}
IsScheme(s) == s # <<>> /\ IsAlpha(s[1]) /\ \A i \in 1..Len(s) : s[i] \in SchemeChars
LowerAll(s) == [i \in 1..Len(s) |-> Lower(s[i])]

\* forbidden host code points of an opaque host, within the model's alphabet
ForbiddenHost == {" ", "#", "/", ":", "?", "@"}

RECURSIVE DecimalValue(_)
DecimalValue(s) ==
    IF s = <<>> THEN 0 ELSE 10 * DecimalValue(Take(s, Len(s) - 1)) + DigitVal(s[Len(s)])

UrlErr(e) == [ok |-> FALSE, err |-> e]

\* what follows the authority: path, then "?" query, then "#" fragment
UrlTail(scheme, username, password, host, port, after) ==
    LET hash == FirstIndex(after, {"#"})
        body == IF hash = 0 THEN after ELSE Take(after, hash - 1)
        q    == FirstIndex(body, {"?"})
    IN [ok       |-> TRUE,
        scheme   |-> scheme,
        username |-> username,
        password |-> password,
        host     |-> host,
        port     |-> port,
        path     |-> IF q = 0 THEN body ELSE Take(body, q - 1),
        query    |-> IF q = 0 THEN None ELSE Some(Drop(body, q))]

\* the "@" that separates user-info from host: the last one of the authority
UserInfoSplit(auth) == LastIndex(auth, {"@"})

\* after "scheme://": user-info, host and port up to the first of / ? #
UrlAuthority(scheme, r) ==
    LET endA     == FirstIndex(r, {"/", "?", "#"})
        auth     == IF endA = 0 THEN r ELSE Take(r, endA - 1)
        after    == IF endA = 0 THEN <<>> ELSE Drop(r, endA - 1)
        at       == UserInfoSplit(auth)
        userinfo == IF at = 0 THEN <<>> ELSE Take(auth, at - 1)
        hostport == Drop(auth, at)
        c1       == FirstIndex(userinfo, {":"})
        rawUser  == IF c1 = 0 THEN userinfo ELSE Take(userinfo, c1 - 1)
        rawPass  == IF c1 = 0 THEN <<>> ELSE Drop(userinfo, c1)
        hasCreds == rawUser # <<>> \/ rawPass # <<>>
        hc       == FirstIndex(hostport, {":"})
        rawHost  == IF hc = 0 THEN hostport ELSE Take(hostport, hc - 1)
        rawPort  == IF hc = 0 THEN <<>> ELSE Drop(hostport, hc)
    IN  IF at = 1 /\ hostport = <<>> /\ endA # 0 THEN UrlErr("EmptyHost")
        ELSE IF \E i \in 1..Len(rawHost) : rawHost[i] \in ForbiddenHost
             THEN UrlErr("InvalidDomainCharacter")
        ELSE IF rawHost = <<>> /\ (hc # 0 \/ hasCreds) THEN UrlErr("EmptyHost")
        ELSE IF \E i \in 1..Len(rawPort) : ~IsDigit(rawPort[i]) THEN UrlErr("InvalidPort")
        ELSE IF rawPort # <<>> /\ DecimalValue(rawPort) > 65535 THEN UrlErr("InvalidPort")
        ELSE UrlTail(scheme,
                     PercentEncode(rawUser, USERINFO),
                     IF rawPass = <<>> THEN None ELSE Some(PercentEncode(rawPass, USERINFO)),
                     IF rawHost = <<>> THEN None ELSE Some(rawHost),
                     IF rawPort = <<>> THEN None ELSE Some(DecimalValue(rawPort)),
                     after)

\* Url::parse (s.parse::<Url>())
UrlParse(s) ==
    LET colon == FirstIndex(s, {":"})
    IN  IF colon = 0 \/ ~IsScheme(Take(s, colon - 1))
        THEN UrlErr("RelativeUrlWithoutBase")
        ELSE LET scheme == LowerAll(Take(s, colon - 1))
                 rest   == Drop(s, colon)
             IN IF StartsWith(rest, <<"/", "/">>)
                THEN UrlAuthority(scheme, Drop(rest, 2))
                ELSE UrlTail(scheme, <<>>, None, None, None, rest)

\* form_urlencoded: "+" is a space, then percent-decoding
FormDecode(s) == PercentDecode([i \in 1..Len(s) |-> IF s[i] = "+" THEN " " ELSE s[i]])

FormPair(piece) ==
    LET eq == FirstIndex(piece, {"="})
    IN IF eq = 0 THEN <<FormDecode(piece), <<>>>>
       ELSE <<FormDecode(Take(piece, eq - 1)), FormDecode(Drop(piece, eq))>>

\* Url::query_pairs: the (key, value) pairs of the query, in order; empty pieces are skipped
query_pairs(u) ==
    IF ~IsSome(u.query) THEN <<>>
    ELSE LET pieces == SelectSeq(Split(Unwrap(u.query), "&"), LAMBDA p : p # <<>>)
         IN [i \in 1..Len(pieces) |-> FormPair(pieces[i])]

-----------------------------------------------------------------------------
(* MySqlConnectOptions: the defaults, and the setters from_str calls *)

S_mysql     == <<"m","y","s","q","l">>
S_localhost == <<"l","o","c","a","l","h","o","s","t">>
S_utf8mb4   == <<"u","t","f","8","m","b","4">>
S_utc       == <<"u","t","c">>

K_user     == <<"u","s","e","r">>
K_username == <<"u","s","e","r","n","a","m","e">>
K_password == <<"p","a","s","s","w","o","r","d">>
K_ssl_mode == <<"s","s","l","-","m","o","d","e">>
K_sslmode  == <<"s","s","l","m","o","d","e">>
K_sslMode  == <<"s","s","l","M","o","d","e">>
K_tls      == <<"t","l","s">>
K_charset  == <<"c","h","a","r","s","e","t">>
K_timezone == <<"t","i","m","e","z","o","n","e">>
K_socket   == <<"s","o","c","k","e","t">>

\* MySqlConnectOptions::new(): every field at its default
OptionsNew ==
    [host     |-> S_localhost,
     port     |-> 3306,
     username |-> None,
     password |-> None,
     database |-> None,
     socket   |-> None,
     charset  |-> S_utf8mb4,
     timezone |-> S_utc]

\* options.host(h): a host that begins with "/" is the path of a socket
SetHost(o, h) ==
    IF h # <<>> /\ h[1] = "/" THEN [o EXCEPT !.socket = Some(h)] ELSE [o EXCEPT !.host = h]
SetPort(o, p)     == [o EXCEPT !.port = p]
SetUsername(o, v) == [o EXCEPT !.username = Some(v)]
SetPassword(o, v) == [o EXCEPT !.password = Some(v)]
SetDatabase(o, v) == [o EXCEPT !.database = Some(v)]
SetCharset(o, v)  == [o EXCEPT !.charset = v]
SetTimezone(o, v) == [o EXCEPT !.timezone = v]
SetSocket(o, v)   == [o EXCEPT !.socket = Some(v)]

-----------------------------------------------------------------------------
(* MySqlConnectOptions::from_str *)

\* the mutant of the scheme test that lets every scheme through
SchemeAny(scheme) == TRUE

\* parse.rs:20  matches!(url.scheme(), "mysql")
SchemeSupported(scheme) == scheme = S_mysql

\* the mutant of lines 27-54 that uses username and password as the URL
\* layer reports them, still percent-encoded
FromAuthorityNoDecode(u) ==
    LET o0   == OptionsNew
        o1   == IF IsSome(u.host)
                THEN SetHost(o0, percent_decode_str_utf8(Unwrap(u.host))) ELSE o0
        o2   == IF IsSome(u.port) THEN SetPort(o1, Unwrap(u.port)) ELSE o1
        o3   == IF u.username # <<>> THEN SetUsername(o2, u.username) ELSE o2
        o4   == IF IsSome(u.password) THEN SetPassword(o3, Unwrap(u.password)) ELSE o3
        path == IF StartsWith(u.path, <<"/">>) THEN Drop(u.path, 1) ELSE u.path
    IN  IF path # <<>> THEN SetDatabase(o4, path) ELSE o4

\* the mutant of lines 27-54 that sets the database to whatever follows the
\* leading "/" of the path, the empty text included
FromAuthorityEmptyDatabase(u) ==
    LET o0   == OptionsNew
        o1   == IF IsSome(u.host)
                THEN SetHost(o0, percent_decode_str_utf8(Unwrap(u.host))) ELSE o0
        o2   == IF IsSome(u.port) THEN SetPort(o1, Unwrap(u.port)) ELSE o1
        o3   == IF u.username # <<>>
                THEN SetUsername(o2, percent_decode_str_utf8(u.username)) ELSE o2
        o4   == IF IsSome(u.password)
                THEN SetPassword(o3, percent_decode_str_utf8(Unwrap(u.password))) ELSE o3
        path == IF StartsWith(u.path, <<"/">>) THEN Drop(u.path, 1) ELSE u.path
    IN  SetDatabase(o4, path)

\* the mutant of lines 27-54 that percent-decodes the database as it does
\* the host
FromAuthorityDecodePath(u) ==
    LET o0   == OptionsNew
        o1   == IF IsSome(u.host)
                THEN SetHost(o0, percent_decode_str_utf8(Unwrap(u.host))) ELSE o0
        o2   == IF IsSome(u.port) THEN SetPort(o1, Unwrap(u.port)) ELSE o1
        o3   == IF u.username # <<>>
                THEN SetUsername(o2, percent_decode_str_utf8(u.username)) ELSE o2
        o4   == IF IsSome(u.password)
                THEN SetPassword(o3, percent_decode_str_utf8(Unwrap(u.password))) ELSE o3
        path == IF StartsWith(u.path, <<"/">>) THEN Drop(u.path, 1) ELSE u.path
    IN  IF path # <<>> THEN SetDatabase(o4, percent_decode_str_utf8(path)) ELSE o4

\* parse.rs:27-54: host, port, username, password and database from the
\* authority and the path
FromAuthority(u) ==
    LET o0   == OptionsNew
        o1   == IF IsSome(u.host)
                THEN SetHost(o0, percent_decode_str_utf8(Unwrap(u.host))) ELSE o0
        o2   == IF IsSome(u.port) THEN SetPort(o1, Unwrap(u.port)) ELSE o1
        o3   == IF u.username # <<>>
                THEN SetUsername(o2, percent_decode_str_utf8(u.username)) ELSE o2
        o4   == IF IsSome(u.password)
                THEN SetPassword(o3, percent_decode_str_utf8(Unwrap(u.password))) ELSE o3
        path == IF StartsWith(u.path, <<"/">>) THEN Drop(u.path, 1) ELSE u.path
    IN  IF path # <<>> THEN SetDatabase(o4, path) ELSE o4

TlsKeys == {K_ssl_mode, K_sslmode, K_sslMode, K_tls}

\* the mutant of the match in which the first pair for a field wins
match_key_first_wins(o, key, value) ==
    IF key \in {K_user, K_username} /\ ~IsSome(o.username) THEN SetUsername(o, value)
    ELSE IF key = K_password /\ ~IsSome(o.password) THEN SetPassword(o, value)
    ELSE IF key = K_charset /\ o.charset = S_utf8mb4 THEN SetCharset(o, value)
    ELSE IF key = K_timezone /\ o.timezone = S_utc THEN SetTimezone(o, value)
    ELSE IF key = K_socket /\ ~IsSome(o.socket) THEN SetSocket(o, value)
    ELSE o

\* the mutant of the match that percent-decodes the value of a pair
match_key_redecode(o, key, value) ==
    IF key \in {K_user, K_username} THEN SetUsername(o, percent_decode_str_utf8(value))
    ELSE IF key = K_password THEN SetPassword(o, percent_decode_str_utf8(value))
    ELSE IF key = K_charset THEN SetCharset(o, percent_decode_str_utf8(value))
    ELSE IF key = K_timezone THEN SetTimezone(o, percent_decode_str_utf8(value))
    ELSE IF key = K_socket THEN SetSocket(o, percent_decode_str_utf8(value))
    ELSE o

\* the mutant of the match whose last arm takes an unknown key for the
\* database
match_key_unknown_sets(o, key, value) ==
    IF key \in {K_user, K_username} THEN SetUsername(o, value)
    ELSE IF key = K_password THEN SetPassword(o, value)
    ELSE IF key = K_charset THEN SetCharset(o, value)
    ELSE IF key = K_timezone THEN SetTimezone(o, value)
    ELSE IF key = K_socket THEN SetSocket(o, value)
    ELSE SetDatabase(o, value)

\* parse.rs:57-90: the arms of the match that set a field; any other key
\* leaves the options as they are
match_key(o, key, value) ==
    IF key \in {K_user, K_username} THEN SetUsername(o, value)
    ELSE IF key = K_password THEN SetPassword(o, value)
    ELSE IF key = K_charset THEN SetCharset(o, value)
    ELSE IF key = K_timezone THEN SetTimezone(o, value)
    ELSE IF key = K_socket THEN SetSocket(o, value)
    ELSE o

Ok(o) == [kind |-> "Ok", msg |-> "", scheme |-> <<>>, options |-> Some(o)]
Err(msg, scheme) ==
    [kind |-> "ConfigurationError", msg |-> msg, scheme |-> scheme, options |-> None]
\* todo!() unwinds: from_str returns nothing
Panic == [kind |-> "panic", msg |-> "not yet implemented", scheme |-> <<>>, options |-> None]

\* parse.rs:56-93: the loop over url.query_pairs(), in their order
RECURSIVE query_loop(_, _)
query_loop(o, pairs) ==
    IF pairs = <<>> THEN Ok(o)
    ELSE IF pairs[1][1] \in TlsKeys THEN Panic
    ELSE query_loop(match_key(o, pairs[1][1], pairs[1][2]), Tail(pairs))

\* parse.rs:16-94
from_str(s) ==
    LET u == UrlParse(s)
    IN  IF ~u.ok THEN Err("for database URL", <<>>)
        ELSE IF ~SchemeSupported(u.scheme) THEN Err("unsupported URL scheme", u.scheme)
        ELSE query_loop(FromAuthority(u), query_pairs(u))

-----------------------------------------------------------------------------
(* The URLs the model parses.  A URL is assembled from components and the  *)
(* parser is given only the assembled text; the components are kept in     *)
(* `input` so that a property can say what the text was meant to hold.     *)

SeqsUpTo(S, n) == UNION {[1..k -> S] : k \in 0..n}

\* scheme and "://": [text, scheme as the URL layer reports it]
P_mysql    == [text |-> S_mysql \o <<":","/","/">>, scheme |-> S_mysql]
P_MySQL    == [text |-> <<"M","y","S","Q","L",":","/","/">>, scheme |-> S_mysql]
P_postgres == [text   |-> <<"p","o","s","t","g","r","e","s",":","/","/">>,
               scheme |-> <<"p","o","s","t","g","r","e","s">>]
Prefixes == {P_mysql, P_MySQL, P_postgres}

\* user-info as written, before the "@" that ends it
UserInfoChars == {"u", "@", ":"}
SpecialUserInfos ==
    { <<"u","@","h",":","p">>,                      \* user@hostname:password
      <<"u",":","p","@","p">>,                      \* username:p@ssw0rd
      <<"%","4","0">>,                              \* an encoded "@"
      <<"%","2","5","4","0",":","%","4","0">> }     \* an encoded "%40"
UserInfos == (SeqsUpTo(UserInfoChars, MaxUserInfoLen) \ {<<>>}) \cup SpecialUserInfos
Creds == {<<>>} \cup {ui \o <<"@">> : ui \in UserInfos}

\* host as written, and the text it percent-decodes to
H_none == [raw |-> <<>>, val |-> <<>>]
H_name == [raw |-> <<"h">>, val |-> <<"h">>]
H_sock == [raw |-> <<"%","2","F","s">>, val |-> <<"/","s">>]
\* an encoded "%2Fs": decoded once it is the text %2Fs, not a path
H_twice == [raw |-> <<"%","2","5","2","F","s">>, val |-> <<"%","2","F","s">>]
Hosts == {H_none, H_name, H_sock, H_twice}

PT_none == [raw |-> <<>>, val |-> None]
PT_5432 == [raw |-> <<":","5","4","3","2">>, val |-> Some(5432)]
Ports == {PT_none, PT_5432}

\* path as written: absent, "/", /d, /my%20db, /a/b, //x
Paths ==
    { <<>>, <<"/">>, <<"/","d">>,
      <<"/","m","y","%","2","0","d","b">>,
      <<"/","a","/","b">>,
      <<"/","/","x">> }

\* query pairs as written: key, value as written, value after form-decoding
SettingKeys == {K_user, K_username, K_password, K_charset, K_timezone, K_socket}
K_unknown == <<"x">>
\* a recognized key in another case is not recognized
K_User == <<"U","s","e","r">>
UnknownKeys == {K_unknown, K_User}
QPair(k, raw, val) == [key |-> k, raw |-> raw, val |-> val]
Pairs ==
    {QPair(k, <<v>>, <<v>>) : k \in SettingKeys, v \in {"a", "b"}}
    \cup {QPair(k, <<"a">>, <<"a">>) : k \in TlsKeys \cup UnknownKeys}
    \cup {QPair(K_user, <<"%","4","0">>, <<"@">>)}
    \cup {QPair(k, <<"%","2","5","4","0">>, <<"%","4","0">>) : k \in {K_user, K_password}}

MkInput(prefix, cred, host, port, path, query) ==
    [prefix |-> prefix, cred |-> cred, host |-> host, port |-> port,
     path |-> path, query |-> query]

\* the authority and the path vary, under no query or one pair
AuthorityInputs ==
    {MkInput(pf, c, h, pt, pa, q) :
        pf \in Prefixes, c \in Creds, h \in Hosts, pt \in Ports, pa \in Paths,
        q \in { <<>>, <<QPair(K_user, <<"a">>, <<"a">>)>>, <<QPair(K_tls, <<"a">>, <<"a">>)>> }}

\* the query varies, under a few authorities
QueryInputs ==
    {MkInput(P_mysql, c, h, PT_none, <<"/","d">>, q) :
        c \in {<<>>, <<"u",":","p","@">>}, h \in {H_name, H_sock, H_twice},
        q \in SeqsUpTo(Pairs, MaxPairs)}

ParseInputs == AuthorityInputs \cup QueryInputs

RECURSIVE RenderPairs(_)
RenderPairs(q) ==
    IF q = <<>> THEN <<>>
    ELSE q[1].key \o <<"=">> \o q[1].raw
         \o (IF Len(q) > 1 THEN <<"&">> \o RenderPairs(Tail(q)) ELSE <<>>)

\* the URL text of an input
Render(i) ==
    i.prefix.text \o i.cred \o i.host.raw \o i.port.raw \o i.path
    \o (IF i.query = <<>> THEN <<>> ELSE <<"?">> \o RenderPairs(i.query))

-----------------------------------------------------------------------------
(* MySqlConnection *)

Modes == {"async", "blocking"}

\* the mutant of the baseline in which MULTI_STATEMENTS is not commented out
BaselineWithMultiStatements ==
    {"PROTOCOL_41", "LONG_PASSWORD", "LONG_FLAG", "IGNORE_SPACE", "TRANSACTIONS",
     "SECURE_CONNECTION", "MULTI_STATEMENTS", "PLUGIN_AUTH", "PLUGIN_AUTH_LENENC_DATA",
     "DEPRECATE_EOF"}

\* connection.rs:42-54: the capabilities a new connection asks for
BaselineCapabilities ==
    {"PROTOCOL_41", "LONG_PASSWORD", "LONG_FLAG", "IGNORE_SPACE", "TRANSACTIONS",
     "SECURE_CONNECTION", "PLUGIN_AUTH", "PLUGIN_AUTH_LENENC_DATA", "DEPRECATE_EOF"}

\* the mutant of new() whose sequence id starts at 1
MySqlConnectionNewSeqOne ==
    [connection_id |-> 0, sequence_id |-> 1, capabilities |-> BaselineCapabilities]

\* connection.rs:37-56: MySqlConnection::new(stream)
MySqlConnectionNew ==
    [connection_id |-> 0, sequence_id |-> 0, capabilities |-> BaselineCapabilities]

\* sequence_id: u8, "incremented with each packet and may wrap around"
NextSequenceId(s) == (s + 1) % 256

\* a caller's view: its position in connect/ping/close, what connect gave it,
\* the connection it built, the transport operations it caused
IdleConn ==
    [pc            |-> "idle",
     options       |-> [kind |-> "pending", msg |-> "", scheme |-> <<>>, options |-> None],
     state         |-> "None",
     connection_id |-> 0,
     sequence_id   |-> 0,
     capabilities  |-> {},
     held          |-> FALSE,
     outcome       |-> "",
     last          |-> "",
     calls         |-> 0,
     trace         |-> <<>>,
     pos           |-> 0]

StartConn == [IdleConn EXCEPT !.pc = "start"]

Pending == [kind |-> "pending", msg |-> "", scheme |-> <<>>, options |-> None]

-----------------------------------------------------------------------------
(* The environment: what the transport answers and what the caller calls  *)
(* next.  The answers are written to `tape` by the first caller to need   *)
(* one and read from it by the other, so that both callers meet the same  *)
(* transport behaviour and make the same calls.                           *)

Answer(kind) == [kind |-> kind, id |-> 0, caps |-> {}]

\* the server's initial handshake packets: connection id and capabilities
ServerCapabilitiesFull ==
    BaselineCapabilities \cup {"MULTI_STATEMENTS", "MULTI_RESULTS", "PS_MULTI_RESULTS",
                               "CAN_HANDLE_EXPIRED_PASSWORDS", "SESSION_TRACK"}
ServerCapabilitiesOld ==
    ServerCapabilitiesFull \ {"DEPRECATE_EOF", "PLUGIN_AUTH_LENENC_DATA", "SESSION_TRACK"}
HandshakePackets ==
    { [kind |-> "handshake", id |-> 42, caps |-> ServerCapabilitiesFull],
      [kind |-> "handshake", id |-> 7,  caps |-> ServerCapabilitiesOld] }

Fresh(m) == conn[m].pos = Len(tape)

\* the answers the caller may get to `op`: the one on the tape, or a new one
Offered(m, op, new) ==
    IF Fresh(m) THEN new
    ELSE IF tape[conn[m].pos + 1].op = op THEN {tape[conn[m].pos + 1].r} ELSE {}

TapeWith(m, op, r) == IF Fresh(m) THEN Append(tape, [op |-> op, r |-> r]) ELSE tape

TraceEntry(op, seq, what) == [op |-> op, seq |-> seq, what |-> what]

-----------------------------------------------------------------------------
(* ParseSpec: from_str applied to every URL of ParseInputs *)

ParseInit ==
    /\ input \in ParseInputs
    /\ url = Render(input)
    /\ result = Pending
    /\ conn = [m \in Modes |-> IdleConn]
    /\ tape = <<>>
    /\ budget = [rounds |-> 0, pings |-> 0]

\* url.parse::<MySqlConnectOptions<Rt>>()
FromStrCall ==
    /\ result.kind = "pending"
    /\ \A m \in Modes : conn[m].pc = "idle"
    /\ result' = from_str(url)
    /\ UNCHANGED <<input, url, conn, tape, budget>>

ParseNext == FromStrCall

ParseSpec == ParseInit /\ [][ParseNext]_vars

-----------------------------------------------------------------------------
(* What a URL of ParseInputs was written to mean, read off its components *)

UserInfoOf(i) == IF i.cred = <<>> THEN <<>> ELSE Take(i.cred, Len(i.cred) - 1)

\* the percent-decoded form of the user-info parts the inputs use
Decoded(x) ==
    IF x = <<"%","4","0">> THEN <<"@">>
    ELSE IF x = <<"%","2","5","4","0">> THEN <<"%","4","0">>
    ELSE x

\* user-info up to its first ":" is the username, what follows the password
WrittenUsername(i) ==
    LET ui == UserInfoOf(i)
        c  == FirstIndex(ui, {":"})
    IN Decoded(IF c = 0 THEN ui ELSE Take(ui, c - 1))
WrittenPassword(i) ==
    LET ui == UserInfoOf(i)
        c  == FirstIndex(ui, {":"})
    IN Decoded(IF c = 0 THEN <<>> ELSE Drop(ui, c))
WrittenDatabase(i) == IF StartsWith(i.path, <<"/">>) THEN Drop(i.path, 1) ELSE i.path
HostIsSocket(i) == i.host.val # <<>> /\ i.host.val[1] = "/"

OrNone(x) == IF x = <<>> THEN None ELSE Some(x)

\* the last pair of the query whose key is in K: its index, 0 if none
LastPairFor(i, K) ==
    LET I == {n \in 1..Len(i.query) : i.query[n].key \in K}
    IN IF I = {} THEN 0 ELSE Max(I)
HasPair(i, K) == LastPairFor(i, K) # 0
LastValueFor(i, K) == i.query[LastPairFor(i, K)].val

UserKeys == {K_user, K_username}

WithoutQuery(i) == [i EXCEPT !.query = <<>>]
RecognizedKeys == SettingKeys \cup TlsKeys
WithoutUnknownPairs(i) ==
    [i EXCEPT !.query = SelectSeq(i.query, LAMBDA p : p.key \in RecognizedKeys)]
WithoutTlsPairs(i) ==
    [i EXCEPT !.query = SelectSeq(i.query, LAMBDA p : p.key \notin TlsKeys)]

Returned == result.kind # "pending"
ValidMysqlUrl == UrlParse(url).ok /\ input.prefix.scheme = S_mysql

-----------------------------------------------------------------------------
(* Properties of from_str, checked under ParseSpec *)

\* C1: query pairs are applied after the authority and path values and in
\* their order: for username (keys user, username), password, charset,
\* timezone and socket the returned value is that of the LAST pair for the
\* field, and without such a pair the value the same URL has without query.
C1_LastQueryPairWins ==
    result.kind = "Ok" =>
        LET o == Unwrap(result.options)
            b == Unwrap(from_str(Render(WithoutQuery(input))).options)
        IN  /\ o.username = IF HasPair(input, UserKeys)
                            THEN Some(LastValueFor(input, UserKeys)) ELSE b.username
            /\ o.password = IF HasPair(input, {K_password})
                            THEN Some(LastValueFor(input, {K_password})) ELSE b.password
            /\ o.charset  = IF HasPair(input, {K_charset})
                            THEN LastValueFor(input, {K_charset}) ELSE b.charset
            /\ o.timezone = IF HasPair(input, {K_timezone})
                            THEN LastValueFor(input, {K_timezone}) ELSE b.timezone
            /\ o.socket   = IF HasPair(input, {K_socket})
                            THEN Some(LastValueFor(input, {K_socket})) ELSE b.socket

\* C1 witness: a URL with a username in its authority and two query pairs for
\* the username, of different values, parsed to the value of the second
C1_Witness ==
    /\ result.kind = "Ok"
    /\ WrittenUsername(input) = <<"u">>
    /\ Len(input.query) = 2
    /\ input.query[1].key = K_username /\ input.query[1].val = <<"a">>
    /\ input.query[2].key = K_user /\ input.query[2].val = <<"b">>
    /\ Unwrap(result.options).username = Some(<<"b">>)

\* C2 as claimed: every valid URL of scheme mysql parses, and every field it
\* does not specify has its default (localhost, 3306, utf8mb4, utc, the
\* rest unset).
C2_ValidMysqlUrlParsesWithDefaults ==
    (Returned /\ ValidMysqlUrl) =>
        /\ result.kind = "Ok"
        /\ LET o == Unwrap(result.options)
           IN  /\ input.host.raw = <<>> => o.host = S_localhost
               /\ input.port.raw = <<>> => o.port = 3306
               /\ ~HasPair(input, {K_charset}) => o.charset = S_utf8mb4
               /\ ~HasPair(input, {K_timezone}) => o.timezone = S_utc
               /\ (WrittenUsername(input) = <<>> /\ ~HasPair(input, UserKeys))
                      => o.username = None
               /\ (WrittenPassword(input) = <<>> /\ ~HasPair(input, {K_password}))
                      => o.password = None
               /\ WrittenDatabase(input) = <<>> => o.database = None
               /\ (~HostIsSocket(input) /\ ~HasPair(input, {K_socket})) => o.socket = None

\* C2 without the URLs that C4's todo!() stops: the same statement for the
\* valid mysql URLs whose query holds no TLS key
DefaultsWhenNoTlsKey ==
    HasPair(input, TlsKeys) \/ C2_ValidMysqlUrlParsesWithDefaults

\* C3: a valid URL whose scheme is not mysql is refused with a configuration
\* error that names the scheme, and no options are returned, whatever its
\* authority, path and query hold.
C3_ForeignSchemeRefused ==
    (Returned /\ UrlParse(url).ok /\ input.prefix.scheme # S_mysql) =>
        /\ result.kind = "ConfigurationError"
        /\ result.msg = "unsupported URL scheme"
        /\ result.scheme = input.prefix.scheme
        /\ result.options = None

\* C3 witness: a postgres URL with credentials, host, port, path and a TLS key
\* in its query, refused
C3_Witness ==
    /\ result.kind = "ConfigurationError"
    /\ result.scheme = P_postgres.scheme
    /\ input.cred # <<>> /\ input.host = H_name /\ input.port = PT_5432
    /\ input.path = <<"/","d">>
    /\ HasPair(input, TlsKeys)

\* C4 as claimed: a mysql URL with a pair of key ssl-mode, sslmode, sslMode or
\* tls is parsed to options or to a configuration error, the same as the URL
\* without that pair.
C4_TlsKeyRecognisedNotActedOn ==
    (Returned /\ ValidMysqlUrl /\ HasPair(input, TlsKeys)) =>
        /\ result.kind \in {"Ok", "ConfigurationError"}
        /\ result = from_str(Render(WithoutTlsPairs(input)))

\* C9: when the host percent-decodes to a path (it begins with "/"), the
\* options report the decoded path as the socket, and username, password and
\* database are those of the authority and the path (a query pair for the
\* field aside).
C9_SocketFromHost ==
    (result.kind = "Ok" /\ HostIsSocket(input)) =>
        LET o == Unwrap(result.options)
        IN  /\ ~HasPair(input, {K_socket}) => o.socket = Some(input.host.val)
            /\ ~HasPair(input, UserKeys) => o.username = OrNone(WrittenUsername(input))
            /\ ~HasPair(input, {K_password}) => o.password = OrNone(WrittenPassword(input))
            /\ o.database = OrNone(WrittenDatabase(input))

\* C9 witness: user:password@%2Fs/d parsed to socket /s, user u, password p,
\* database d
C9_Witness ==
    /\ result.kind = "Ok"
    /\ input.host = H_sock /\ input.cred = <<"u",":","p","@">>
    /\ input.path = <<"/","d">> /\ input.query = <<>>
    /\ Unwrap(result.options).socket = Some(<<"/","s">>)
    /\ Unwrap(result.options).username = Some(<<"u">>)
    /\ Unwrap(result.options).password = Some(<<"p">>)
    /\ Unwrap(result.options).database = Some(<<"d">>)

\* C10: the LAST "@" of the authority ends the user-info and the first ":" of
\* the user-info ends the username, so that an "@" in the username or the
\* password is kept; host and port are what follows the last "@".
C10_LastAtEndsUserInfo ==
    (result.kind = "Ok" /\ input.cred # <<>>) =>
        LET o == Unwrap(result.options)
        IN  /\ ~HasPair(input, UserKeys) => o.username = OrNone(WrittenUsername(input))
            /\ ~HasPair(input, {K_password}) => o.password = OrNone(WrittenPassword(input))
            /\ ~HostIsSocket(input) =>
                   o.host = IF input.host.val = <<>> THEN S_localhost ELSE input.host.val
            /\ o.port = IF IsSome(input.port.val) THEN Unwrap(input.port.val) ELSE 3306

\* C10 witness: user@hostname:password@hostname:5432 parsed to the username
\* user@hostname, host hostname and port 5432
C10_Witness ==
    /\ result.kind = "Ok"
    /\ input.cred = <<"u","@","h",":","p","@">>
    /\ input.host = H_name /\ input.port = PT_5432
    /\ Unwrap(result.options).username = Some(<<"u","@","h">>)
    /\ Unwrap(result.options).password = Some(<<"p">>)
    /\ Unwrap(result.options).host = <<"h">>
    /\ Unwrap(result.options).port = 5432

\* C16: every value is percent-decoded once.  Host, username and password of
\* the authority are the once-decoded text of what was written (%2540 gives
\* %40, not @); the URL layer delivers each query value decoded once, and
\* from_str stores it as delivered (a delivered %40 stays %40).
C16_DecodedExactlyOnce ==
    result.kind = "Ok" =>
        LET o  == Unwrap(result.options)
            qp == query_pairs(UrlParse(url))
        IN  /\ (input.host.raw # <<>> /\ ~HostIsSocket(input)) => o.host = input.host.val
            /\ ~HasPair(input, UserKeys) => o.username = OrNone(WrittenUsername(input))
            /\ ~HasPair(input, {K_password}) => o.password = OrNone(WrittenPassword(input))
            /\ Len(qp) = Len(input.query)
            /\ \A n \in 1..Len(qp) : qp[n] = <<input.query[n].key, input.query[n].val>>
            /\ HasPair(input, UserKeys)
                   => o.username = Some(qp[LastPairFor(input, UserKeys)][2])
            /\ HasPair(input, {K_password})
                   => o.password = Some(qp[LastPairFor(input, {K_password})][2])
            /\ HasPair(input, {K_charset})
                   => o.charset = qp[LastPairFor(input, {K_charset})][2]
            /\ HasPair(input, {K_timezone})
                   => o.timezone = qp[LastPairFor(input, {K_timezone})][2]
            /\ HasPair(input, {K_socket})
                   => o.socket = Some(qp[LastPairFor(input, {K_socket})][2])

\* C16 witness: a host written %252Fs parsed to the host %2Fs, with a query
\* value written %2540 parsed to the username %40
C16_Witness ==
    /\ result.kind = "Ok"
    /\ input.host = H_twice
    /\ Len(input.query) = 1
    /\ input.query[1].key = K_user
    /\ input.query[1].raw = <<"%","2","5","4","0">>
    /\ Unwrap(result.options).host = <<"%","2","F","s">>
    /\ Unwrap(result.options).socket = None
    /\ Unwrap(result.options).username = Some(<<"%","4","0">>)

\* C11: a query pair whose key is not recognized changes nothing: what
\* from_str returns for a mysql URL, options or failure, is what it returns
\* for the same URL with every unrecognized pair removed.
C11_UnknownKeysIgnored ==
    (Returned /\ ValidMysqlUrl) =>
        result = from_str(Render(WithoutUnknownPairs(input)))

\* C11 witness: a URL with the pairs x=a and User=a, parsed to the options of
\* the URL without query
C11_Witness ==
    /\ result.kind = "Ok"
    /\ Len(input.query) = 2
    /\ input.query[1].key = K_unknown /\ input.query[2].key = K_User
    /\ input.host = H_name /\ input.cred = <<>>
    /\ Unwrap(result.options) = [OptionsNew EXCEPT !.host = <<"h">>, !.database = Some(<<"d">>)]

\* C12: the database is what follows the leading "/" of the path when that
\* is not empty; when the path is absent or is "/" the database is unset,
\* and it is never the empty text.  No query pair changes it.
C12_DatabaseFromPath ==
    result.kind = "Ok" =>
        LET o    == Unwrap(result.options)
            rest == WrittenDatabase(input)
        IN  /\ rest # <<>> => o.database = Some(rest)
            /\ input.path \in {<<>>, <<"/">>} => o.database = None
            /\ o.database # Some(<<>>)

\* C12 witness: a URL whose path is "/", parsed with the database unset
C12_Witness ==
    /\ result.kind = "Ok"
    /\ input.path = <<"/">>
    /\ input.host = H_name
    /\ input.query # <<>>
    /\ Unwrap(result.options).database = None

\* C18: the database is the raw text of the path after its first "/": it is
\* not percent-decoded, though the host of the same URL is, and a further
\* "/" is part of the name: /my%20db gives my%20db, /a/b gives a/b and //x
\* gives /x.
C18_DatabaseIsRawPath ==
    result.kind = "Ok" =>
        LET o == Unwrap(result.options)
        IN  /\ input.path = <<"/","m","y","%","2","0","d","b">>
                   => o.database = Some(<<"m","y","%","2","0","d","b">>)
            /\ input.path = <<"/","a","/","b">> => o.database = Some(<<"a","/","b">>)
            /\ input.path = <<"/","/","x">> => o.database = Some(<<"/","x">>)
            /\ IsSome(o.database) => Unwrap(o.database) = Tail(input.path)
            /\ input.host = H_twice => o.host = <<"%","2","F","s">>

\* C18 witness: %252Fs/my%20db parsed to the host %2Fs, decoded, and the
\* database my%20db, as written
C18_Witness ==
    /\ result.kind = "Ok"
    /\ input.host = H_twice
    /\ input.path = <<"/","m","y","%","2","0","d","b">>
    /\ Unwrap(result.options).host = <<"%","2","F","s">>
    /\ Unwrap(result.options).database = Some(<<"m","y","%","2","0","d","b">>)

-----------------------------------------------------------------------------
(* connect, ping and close, one transport operation at a step *)

Step(m, c, t, b) ==
    /\ conn' = [conn EXCEPT ![m] = c]
    /\ tape' = t
    /\ budget' = b
    /\ UNCHANGED <<input, url, result>>

\* an operation of c ends with an error: connect hands out no connection
Failed(c, kind) ==
    IF c.held
    THEN [c EXCEPT !.pc = "ready", !.last = kind, !.calls = @ + 1]
    ELSE [c EXCEPT !.pc = "done", !.outcome = kind, !.state = "Dropped", !.calls = @ + 1]

Did(c, op, what) ==
    [c EXCEPT !.trace = Append(@, TraceEntry(op, c.sequence_id, what)), !.pos = @ + 1]

\* the mutant of the blocking connect that goes on with default options when
\* the URL does not parse
ConnectBlockingUnchecked(m) ==
    /\ m = "blocking"
    /\ conn[m].pc = "start"
    /\ LET r == from_str(url)
       IN Step(m,
               IF r.kind = "panic"
               THEN [conn[m] EXCEPT !.pc = "done", !.options = r,
                                    !.outcome = r.kind, !.calls = 1]
               ELSE [conn[m] EXCEPT !.pc = "open",
                                    !.options = IF r.kind = "Ok" THEN r ELSE Ok(OptionsNew)],
               tape, budget)

\* connection.rs:122-130  Self::connect(&url.parse::<MySqlConnectOptions<Rt>>()?)
ConnectBlocking(m) ==
    /\ m = "blocking"
    /\ conn[m].pc = "start"
    /\ LET r == from_str(url)
       IN Step(m,
               IF r.kind = "Ok" THEN [conn[m] EXCEPT !.pc = "open", !.options = r]
               ELSE [conn[m] EXCEPT !.pc = "done", !.options = r,
                                    !.outcome = r.kind, !.calls = 1],
               tape, budget)

\* the mutant of the async connect that opens the transport whatever the
\* parse gave and looks at the parse result afterwards
ConnectAsyncOpensFirst(m) ==
    /\ m = "async"
    /\ conn[m].pc = "start"
    /\ LET r == from_str(url)
       IN Step(m,
               IF r.kind = "panic"
               THEN [conn[m] EXCEPT !.pc = "done", !.options = r,
                                    !.outcome = r.kind, !.calls = 1]
               ELSE [conn[m] EXCEPT !.pc = "open", !.options = r],
               tape, budget)

\* connection.rs:94  let options = url.parse::<Self::Options>();
\* the URL is parsed when connect is called; the future holds the result
ConnectAsync(m) ==
    /\ m = "async"
    /\ conn[m].pc = "start"
    /\ LET r == from_str(url)
       IN Step(m,
               IF r.kind = "panic"
               THEN [conn[m] EXCEPT !.pc = "done", !.options = r,
                                    !.outcome = r.kind, !.calls = 1]
               ELSE [conn[m] EXCEPT !.pc = "future", !.options = r],
               tape, budget)

\* connection.rs:95  Box::pin(async move { options?.connect().await }), polled
PollConnect(m) ==
    /\ conn[m].pc = "future"
    /\ Step(m,
            IF conn[m].options.kind = "Ok" THEN [conn[m] EXCEPT !.pc = "open"]
            ELSE [conn[m] EXCEPT !.pc = "done", !.outcome = conn[m].options.kind,
                                 !.calls = 1],
            tape, budget)

\* options.connect(): the transport is opened and MySqlConnection::new wraps it
OpenTransport(m) ==
    /\ conn[m].pc = "open"
    /\ \E r \in Offered(m, "open", {Answer("connected"), Answer("refused")}) :
        LET c == Did(conn[m], "open", r.kind)
        IN Step(m,
                IF r.kind = "connected"
                THEN [c EXCEPT !.pc = "hs_read", !.state = "New",
                               !.connection_id = MySqlConnectionNew.connection_id,
                               !.sequence_id = MySqlConnectionNew.sequence_id,
                               !.capabilities = MySqlConnectionNew.capabilities]
                ELSE Failed(c, "IoError"),
                TapeWith(m, "open", r), budget)

\* the handshake: the server's initial packet brings the connection id and
\* its capabilities, which are committed to the connection
HandshakeRead(m) ==
    /\ conn[m].pc = "hs_read"
    /\ \E r \in Offered(m, "read", HandshakePackets \cup {Answer("ERR"), Answer("io")}) :
        LET c == Did(conn[m], "read", r.kind)
        IN Step(m,
                IF r.kind = "handshake"
                THEN [c EXCEPT !.pc = "hs_write",
                               !.connection_id = r.id,
                               !.capabilities = @ \cap r.caps,
                               !.sequence_id = NextSequenceId(@)]
                ELSE IF r.kind = "ERR"
                THEN Failed([c EXCEPT !.sequence_id = NextSequenceId(@)], "ProtocolError")
                ELSE Failed(c, "IoError"),
                TapeWith(m, "read", r), budget)

\* the client's handshake response, and its answer to each further auth packet
HandshakeWrite(m) ==
    /\ conn[m].pc \in {"hs_write", "auth_write"}
    /\ LET what == IF conn[m].pc = "hs_write" THEN "HandshakeResponse" ELSE "AuthResponse"
           c == [conn[m] EXCEPT !.trace = Append(@, TraceEntry("write", conn[m].sequence_id, what))]
       IN Step(m, [c EXCEPT !.pc = "auth_read", !.sequence_id = NextSequenceId(@)],
               tape, budget)

\* the server accepts (OK), refuses (ERR) or asks for more (AuthMoreData)
AuthRead(m) ==
    /\ conn[m].pc = "auth_read"
    /\ \E r \in Offered(m, "read",
                        {Answer("OK"), Answer("ERR"), Answer("io")}
                        \cup (IF budget.rounds > 0 THEN {Answer("AuthMoreData")} ELSE {})) :
        LET c == Did(conn[m], "read", IF r.kind = "OK" THEN "AuthOk" ELSE r.kind)
        IN Step(m,
                IF r.kind = "OK"
                THEN [c EXCEPT !.pc = "ready", !.state = "Ready", !.held = TRUE,
                               !.outcome = "Ok", !.calls = 1,
                               !.sequence_id = NextSequenceId(@)]
                ELSE IF r.kind = "AuthMoreData"
                THEN [c EXCEPT !.pc = "auth_write", !.sequence_id = NextSequenceId(@)]
                ELSE IF r.kind = "ERR"
                THEN Failed([c EXCEPT !.sequence_id = NextSequenceId(@)], "AuthError")
                ELSE Failed(c, "IoError"),
                TapeWith(m, "read", r),
                IF Fresh(m) /\ r.kind = "AuthMoreData"
                THEN [budget EXCEPT !.rounds = @ - 1] ELSE budget)

\* the mutant of the command start that keeps the sequence id where it is
BeginCommandNoReset(c, packet) ==
    [c EXCEPT !.trace = Append(@, TraceEntry("write", c.sequence_id, packet)),
              !.sequence_id = NextSequenceId(c.sequence_id)]

\* a new command begins: the sequence id is reset to 0 and the command's
\* packet is written with it
BeginCommand(c, packet) ==
    [c EXCEPT !.trace = Append(@, TraceEntry("write", 0, packet)),
              !.sequence_id = NextSequenceId(0)]

\* ping_async / ping: COM_PING is written, then the answer is awaited
Ping(m) ==
    /\ conn[m].pc = "ready"
    /\ conn[m].held
    /\ \E r \in Offered(m, "call", IF budget.pings > 0 THEN {Answer("ping")} ELSE {}) :
        /\ r.kind = "ping"
        /\ Step(m,
                [BeginCommand(conn[m], "COM_PING") EXCEPT !.pc = "ping_read", !.pos = @ + 1],
                TapeWith(m, "call", r),
                IF Fresh(m) THEN [budget EXCEPT !.pings = @ - 1] ELSE budget)

\* the mutant of the blocking ping that does not wait for the answer
PingBlockingNoWait(m) ==
    /\ m = "blocking"
    /\ conn[m].pc = "ready"
    /\ conn[m].held
    /\ \E r \in Offered(m, "call", IF budget.pings > 0 THEN {Answer("ping")} ELSE {}) :
        /\ r.kind = "ping"
        /\ Step(m,
                [BeginCommand(conn[m], "COM_PING") EXCEPT !.pc = "ready", !.pos = @ + 1,
                                                          !.last = "Ok", !.calls = @ + 1],
                TapeWith(m, "call", r),
                IF Fresh(m) THEN [budget EXCEPT !.pings = @ - 1] ELSE budget)

\* connection.rs:74-80  Box::pin(self.ping_async())
PingAsync(m) == m = "async" /\ Ping(m)

\* connection.rs:115-120  self.ping()
PingBlocking(m) == m = "blocking" /\ Ping(m)

\* the mutant of the ping's read that falls back to the baseline
\* capabilities when the server answers with an error
PingReadResetsCapabilities(m) ==
    /\ conn[m].pc = "ping_read"
    /\ \E r \in Offered(m, "read", {Answer("OK"), Answer("ERR"), Answer("io")}) :
        LET c == Did(conn[m], "read", r.kind)
        IN Step(m,
                IF r.kind = "OK"
                THEN [c EXCEPT !.pc = "ready", !.last = "Ok", !.calls = @ + 1,
                               !.sequence_id = NextSequenceId(@)]
                ELSE IF r.kind = "ERR"
                THEN Failed([c EXCEPT !.sequence_id = NextSequenceId(@),
                                      !.capabilities = BaselineCapabilities], "ProtocolError")
                ELSE Failed(c, "IoError"),
                TapeWith(m, "read", r), budget)

\* the server's answer to COM_PING
PingRead(m) ==
    /\ conn[m].pc = "ping_read"
    /\ \E r \in Offered(m, "read", {Answer("OK"), Answer("ERR"), Answer("io")}) :
        LET c == Did(conn[m], "read", r.kind)
        IN Step(m,
                IF r.kind = "OK"
                THEN [c EXCEPT !.pc = "ready", !.last = "Ok", !.calls = @ + 1,
                               !.sequence_id = NextSequenceId(@)]
                ELSE IF r.kind = "ERR"
                THEN Failed([c EXCEPT !.sequence_id = NextSequenceId(@)], "ProtocolError")
                ELSE Failed(c, "IoError"),
                TapeWith(m, "read", r), budget)

\* the mutant of close that leaves the connection with the caller
CloseKeepsConnection(m) ==
    /\ conn[m].pc = "ready"
    /\ conn[m].held
    /\ \E r \in Offered(m, "call", {Answer("close")}) :
        /\ r.kind = "close"
        /\ Step(m,
                [BeginCommand(conn[m], "COM_QUIT") EXCEPT !.pc = "ready", !.last = "Ok",
                                                          !.calls = @ + 1, !.pos = @ + 1],
                TapeWith(m, "call", r), budget)

\* close_async / close: the connection is consumed and COM_QUIT is written
Close(m) ==
    /\ conn[m].pc = "ready"
    /\ conn[m].held
    /\ \E r \in Offered(m, "call", {Answer("close")}) :
        /\ r.kind = "close"
        /\ Step(m,
                [BeginCommand(conn[m], "COM_QUIT") EXCEPT !.pc = "shutdown", !.held = FALSE,
                                                          !.pos = @ + 1],
                TapeWith(m, "call", r), budget)

\* connection.rs:99-107  Box::pin(self.close_async())
CloseAsync(m) == m = "async" /\ Close(m)

\* connection.rs:132-137  self.close()
CloseBlocking(m) == m = "blocking" /\ Close(m)

\* the transport is shut down and released
Shutdown(m) ==
    /\ conn[m].pc = "shutdown"
    /\ \E r \in Offered(m, "shutdown", {Answer("closed"), Answer("io")}) :
        LET c == Did(conn[m], "shutdown", r.kind)
        IN Step(m,
                [c EXCEPT !.pc = "done", !.state = "Closed", !.calls = @ + 1,
                          !.last = IF r.kind = "closed" THEN "Ok" ELSE "IoError"],
                TapeWith(m, "shutdown", r), budget)

-----------------------------------------------------------------------------
(* ConnSpec: one caller, async or blocking.  DualSpec: both, on one tape. *)

DualAuthRounds == 1

ConnInputs ==
    { MkInput(P_mysql, <<"u",":","p","@">>, H_name, PT_none, <<"/","d">>, <<>>),
      MkInput(P_mysql, <<>>, H_sock, PT_none, <<>>, <<QPair(K_charset, <<"a">>, <<"a">>)>>),
      MkInput(P_postgres, <<>>, H_name, PT_none, <<>>, <<>>),
      MkInput(P_mysql, <<>>, H_none, PT_5432, <<>>, <<>>),
      MkInput(P_mysql, <<>>, H_name, PT_none, <<>>, <<QPair(K_tls, <<"a">>, <<"a">>)>>) }

ConnInit ==
    /\ input \in ConnInputs
    /\ url = Render(input)
    /\ result = Pending
    /\ \E a \in Modes : conn = [m \in Modes |-> IF m = a THEN StartConn ELSE IdleConn]
    /\ tape = <<>>
    /\ budget = [rounds |-> MaxAuthRounds, pings |-> MaxPings]

DualInit ==
    /\ input \in ConnInputs
    /\ url = Render(input)
    /\ result = Pending
    /\ conn = [m \in Modes |-> StartConn]
    /\ tape = <<>>
    /\ budget = [rounds |-> DualAuthRounds, pings |-> MaxPings]

ConnNext ==
    \E m \in Modes :
        \/ ConnectAsync(m)
        \/ PollConnect(m)
        \/ ConnectBlocking(m)
        \/ OpenTransport(m)
        \/ HandshakeRead(m)
        \/ HandshakeWrite(m)
        \/ AuthRead(m)
        \/ PingAsync(m)
        \/ PingBlocking(m)
        \/ PingRead(m)
        \/ CloseAsync(m)
        \/ CloseBlocking(m)
        \/ Shutdown(m)

ConnSpec == ConnInit /\ [][ConnNext]_vars
DualSpec == DualInit /\ [][ConnNext]_vars

-----------------------------------------------------------------------------
(* Properties of the connection, checked under ConnSpec and DualSpec *)

LastOp(c) == c.trace[Len(c.trace)]
PrevOp(c) == c.trace[Len(c.trace) - 1]
IsPacket(e) == e.op \in {"read", "write"} /\ e.what # "io"
Commands == {"COM_PING", "COM_QUIT"}

\* C5: the sequence id is a byte; it is 0 on a new connection, and every
\* packet of an exchange carries the id that follows the one before it and
\* leaves the connection with the id that follows its own, modulo 256: after
\* the packet with id 255 comes id 0.
C5_SequenceIdAdvancesModulo256 ==
    \A m \in Modes :
        LET c == conn[m]
        IN  /\ c.sequence_id \in 0..255
            /\ (c.state = "New" /\ LastOp(c).op = "open") => c.sequence_id = 0
            /\ (c.trace # <<>> /\ IsPacket(LastOp(c)))
                   => c.sequence_id = (LastOp(c).seq + 1) % 256
            /\ (Len(c.trace) >= 2 /\ IsPacket(LastOp(c)) /\ IsPacket(PrevOp(c))
                   /\ LastOp(c).what \notin Commands)
                   => LastOp(c).seq = (PrevOp(c).seq + 1) % 256

\* C5 witness: the packet with sequence id 255 has been exchanged and the
\* connection's sequence id is 0
C5_Witness ==
    \E m \in Modes :
        /\ conn[m].trace # <<>>
        /\ IsPacket(LastOp(conn[m]))
        /\ LastOp(conn[m]).seq = 255
        /\ conn[m].sequence_id = 0

\* C6: the first packet of every command (COM_PING of ping, COM_QUIT of
\* close) carries sequence id 0, whatever was exchanged before it.
C6_CommandStartsAtZero ==
    \A m \in Modes :
        (conn[m].trace # <<>> /\ LastOp(conn[m]).what \in Commands)
            => LastOp(conn[m]).seq = 0

\* C6 witness: a ping sent with sequence id 0 right after an exchange whose
\* last packet had sequence id 4
C6_Witness ==
    \E m \in Modes :
        /\ Len(conn[m].trace) >= 2
        /\ LastOp(conn[m]).what = "COM_PING"
        /\ LastOp(conn[m]).seq = 0
        /\ IsPacket(PrevOp(conn[m]))
        /\ PrevOp(conn[m]).seq = 4

\* what a caller can observe of its calls
Settled(c) == c.pc \in {"ready", "done"}
Observable(c) ==
    [outcome       |-> c.outcome,
     last          |-> c.last,
     held          |-> c.held,
     state         |-> c.state,
     connection_id |-> c.connection_id,
     capabilities  |-> c.capabilities,
     sequence_id   |-> c.sequence_id,
     trace         |-> c.trace]

HandshakeDone(c) == \E k \in 1..Len(c.trace) : c.trace[k].what = "AuthOk"

\* C8: a caller holds a connection only when the URL parsed and the handshake
\* succeeded, and then the connection is Ready; when parsing, opening the
\* transport or the handshake fails, connect gives the error and no
\* connection, and a connection in state New is never held.
C8_ConnectAllOrNothing ==
    \A m \in Modes :
        LET c == conn[m]
        IN  /\ (c.held \/ c.outcome = "Ok") => (from_str(url).kind = "Ok" /\ HandshakeDone(c))
            /\ c.held => (c.state = "Ready" /\ c.outcome = "Ok")
            /\ c.state = "New" => (~c.held /\ c.outcome = "")
            /\ c.state = "Dropped"
                   => (~c.held /\ c.outcome \in {"IoError", "ProtocolError", "AuthError"})
            /\ (c.pc = "done" /\ from_str(url).kind = "ConfigurationError")
                   => (~c.held /\ c.outcome = "ConfigurationError" /\ c.state = "None")

\* C8 witness: the handshake failed after the server's connection id was
\* committed; connect gave an error and the caller holds nothing
C8_Witness ==
    \E m \in Modes :
        /\ conn[m].pc = "done"
        /\ conn[m].state = "Dropped"
        /\ conn[m].connection_id = 42
        /\ conn[m].outcome = "AuthError"
        /\ ~conn[m].held

\* a step in which caller m's connection starts a command
CommandStarted(m) ==
    /\ Len(conn'[m].trace) = Len(conn[m].trace) + 1
    /\ LastOp(conn'[m]).what \in Commands
QuitSent(c) == \E k \in 1..Len(c.trace) : c.trace[k].what = "COM_QUIT"

\* C13: ping and close start only on a connection the caller holds, which is
\* Ready: none starts before the handshake has completed, none after close
\* was called (close consumes the connection: no ping, no second close), and
\* a Closed connection never changes again.
C13_OnlyReadyConnectionsAreUsed ==
    [][\A m \in Modes :
          /\ CommandStarted(m) =>
                 /\ conn[m].held
                 /\ conn[m].state = "Ready"
                 /\ HandshakeDone(conn[m])
                 /\ ~QuitSent(conn[m])
          /\ QuitSent(conn[m]) => ~conn'[m].held
          /\ conn[m].state = "Closed" => conn'[m] = conn[m]]_vars

\* C13 witness: a connection that was pinged and then closed; the caller
\* holds nothing
C13_Witness ==
    \E m \in Modes :
        /\ conn[m].state = "Closed"
        /\ ~conn[m].held
        /\ conn[m].pc = "done"
        /\ \E k \in 1..Len(conn[m].trace) : conn[m].trace[k].what = "COM_PING"
        /\ LastOp(conn[m]).op = "shutdown"
        /\ PrevOp(conn[m]).what = "COM_QUIT"

\* C14: once the handshake has succeeded, the connection's capabilities and
\* its connection id are the same after every step as before it: a ping that
\* succeeds, a ping that fails with a ProtocolError or an IoError, and close
\* leave both as the handshake set them.
C14_NegotiatedFieldsNeverChange ==
    [][\A m \in Modes :
          HandshakeDone(conn[m]) =>
              /\ conn'[m].capabilities = conn[m].capabilities
              /\ conn'[m].connection_id = conn[m].connection_id]_vars

\* C14 witness: after a handshake with the older server, one ping failed with
\* a ProtocolError and the next with an IoError; the connection still has the
\* server's id and the capabilities negotiated with it
C14_Witness ==
    \E m \in Modes :
        /\ conn[m].held
        /\ conn[m].pc = "ready"
        /\ conn[m].calls = 3
        /\ conn[m].last = "IoError"
        /\ \E k \in 1..Len(conn[m].trace) : conn[m].trace[k].what = "ERR"
        /\ conn[m].connection_id = 7
        /\ conn[m].capabilities = BaselineCapabilities \cap ServerCapabilitiesOld
        /\ conn[m].capabilities # BaselineCapabilities

\* the flags new() leaves commented out
NotRequested ==
    {"MULTI_STATEMENTS", "MULTI_RESULTS", "PS_MULTI_RESULTS",
     "CAN_HANDLE_EXPIRED_PASSWORDS", "SESSION_TRACK"}

\* C15: a connection that new() has just built, before any packet is read or
\* written, has sequence id 0, connection id 0 and exactly the nine baseline
\* capabilities, whatever the options; none of the five flags that are not
\* requested is ever in the set, and the set after the handshake is a subset
\* of the baseline.
C15_NewConnectionHasBaseline ==
    \A m \in Modes :
        LET c == conn[m]
            nine == {"PROTOCOL_41", "LONG_PASSWORD", "LONG_FLAG", "IGNORE_SPACE",
                     "TRANSACTIONS", "SECURE_CONNECTION", "PLUGIN_AUTH",
                     "PLUGIN_AUTH_LENENC_DATA", "DEPRECATE_EOF"}
        IN  /\ (c.state = "New" /\ LastOp(c).op = "open") =>
                   /\ c.sequence_id = 0
                   /\ c.connection_id = 0
                   /\ c.capabilities = nine
            /\ c.capabilities \cap NotRequested = {}
            /\ HandshakeDone(c) => c.capabilities \subseteq nine

\* C15 witness: a connection just built from options with a socket and a
\* charset of their own (no host, no credentials) has sequence id 0,
\* connection id 0 and the nine baseline capabilities
C15_Witness ==
    \E m \in Modes :
        LET c == conn[m]
        IN  /\ c.state = "New"
            /\ LastOp(c).op = "open"
            /\ IsSome(Unwrap(c.options.options).socket)
            /\ Unwrap(c.options.options).charset = <<"a">>
            /\ c.sequence_id = 0
            /\ c.connection_id = 0
            /\ Cardinality(c.capabilities) = 9
            /\ "DEPRECATE_EOF" \in c.capabilities

\* C17: connect parses the whole URL before the transport is touched, in
\* the async and in the blocking exposure: a caller that has caused any
\* transport operation holds the options the URL parses to, and when the URL
\* does not parse the caller never opens, reads or writes, and its connect
\* ends with the configuration error.
C17_ParsedBeforeTransport ==
    \A m \in Modes :
        LET c == conn[m]
            r == from_str(url)
        IN  /\ c.trace # <<>> => (r.kind = "Ok" /\ c.options = r)
            /\ r.kind = "ConfigurationError" =>
                   /\ c.trace = <<>>
                   /\ c.state = "None"
                   /\ c.pc \in {"idle", "start", "future", "done"}
                   /\ c.pc = "done" => c.outcome = "ConfigurationError"

\* C17 witness: the async connect of a postgres URL has been polled to its
\* end: a configuration error, and no transport operation
C17_Witness ==
    /\ from_str(url).kind = "ConfigurationError"
    /\ input.prefix = P_postgres
    /\ conn["async"].pc = "done"
    /\ conn["async"].outcome = "ConfigurationError"
    /\ conn["async"].calls = 1
    /\ conn["async"].trace = <<>>

====
